---- MODULE Spec2Model ----
(***************************************************************************)
(* Excel Name Matcher (src/regi.py): name normalisation, reference index,  *)
(* exact merge on the canonical key, fuzzy fallback, result assembly and   *)
(* summary counts, as a state machine.                                     *)
(*                                                                         *)
(* Text is a sequence of one-character strings.  A missing cell (None /    *)
(* NaN) of a text column is the value NaN below.  A score is an exact      *)
(* rational <<n, d>> (n/d); the missing score is <<0, 0>>.                 *)
(***************************************************************************)
EXTENDS Integers, Sequences, FiniteSets, TLC

(***************************************************************************)
(* Characters and text                                                     *)
(***************************************************************************)
NBSP == "nbsp"                     \* the character U+00A0
NaN == <<"NaN">>                   \* None / NaN of a text column

LowerLetters == {"a", "b"}
UpperLetters == {"A", "B"}
PunctChars == {"-", "."}
Kept == LowerLetters \cup {"1", " "}    \* the class [a-z0-9 ]

isna(x) == x = NaN
notna(x) == x # NaN

\* str.lower(), one character
LowerChar(c) == CASE c = "A" -> "a" [] c = "B" -> "b" [] OTHER -> c

\* str.lower()
lower(s) == [i \in 1..Len(s) |-> LowerChar(s[i])]

\* s.replace(" ", " ")
replace_nbsp(s) == [i \in 1..Len(s) |-> IF s[i] = NBSP THEN " " ELSE s[i]]

\* variant: the characters outside [a-z0-9 ] are deleted
sub_non_kept_removed(s) == SelectSeq(s, LAMBDA c : c \in Kept)

\* re.sub(r"[^a-z0-9 ]+", " ", s): every maximal run of characters outside
\* [a-z0-9 ] becomes one space
RECURSIVE sub_non_kept(_)
sub_non_kept(s) ==
  IF s = <<>> THEN <<>>
  ELSE IF Head(s) \notin Kept
       THEN IF Len(s) > 1 /\ s[2] \notin Kept
            THEN sub_non_kept(Tail(s))
            ELSE <<" ">> \o sub_non_kept(Tail(s))
       ELSE <<Head(s)>> \o sub_non_kept(Tail(s))

\* re.sub(r"\s+", " ", s): every run of spaces becomes one space
RECURSIVE sub_spaces(_)
sub_spaces(s) ==
  IF s = <<>> THEN <<>>
  ELSE IF Head(s) = " " /\ Len(s) > 1 /\ s[2] = " "
       THEN sub_spaces(Tail(s))
       ELSE <<Head(s)>> \o sub_spaces(Tail(s))

\* str.strip()
RECURSIVE lstrip(_)
lstrip(s) == IF s # <<>> /\ Head(s) = " " THEN lstrip(Tail(s)) ELSE s
RECURSIVE rstrip(_)
rstrip(s) ==
  IF s # <<>> /\ s[Len(s)] = " " THEN rstrip(SubSeq(s, 1, Len(s) - 1)) ELSE s
strip(s) == rstrip(lstrip(s))

normalize_name(s) ==
  IF isna(s) THEN <<>>
  ELSE LET s1 == lower(s)
           s2 == replace_nbsp(s1)
           s3 == sub_non_kept(s2)
           s4 == sub_spaces(s3)
       IN strip(s4)

(***************************************************************************)
(* Scores: exact rationals <<n, d>> standing for n/d, on the scale 0..100  *)
(***************************************************************************)
NoScore == <<0, 0>>                \* None / NaN of the MatchScore column
score_isna(x) == x[2] = 0
\* comparisons; one with a missing score is false
ScoreGE(x, y) == x[2] # 0 /\ y[2] # 0 /\ x[1] * y[2] >= y[1] * x[2]
ScoreEQ(x, y) == x[2] # 0 /\ y[2] # 0 /\ x[1] * y[2] = y[1] * x[2]
ScoreMax(x, y) == IF ScoreGE(x, y) THEN x ELSE y
ScoreOf(n) == <<n, 1>>             \* float(n)

(***************************************************************************)
(* rapidfuzz.fuzz scorers (the values of `scorers`), as the library        *)
(* computes them on plain strings; floating point rounding is left out     *)
(***************************************************************************)
\* code point order of the characters a canonical key can hold
CharOrd(c) == CASE c = " " -> 0 [] c = "1" -> 1 [] c = "a" -> 2 [] c = "b" -> 3
                [] OTHER -> 4

RECURSIVE LexLess(_, _)
LexLess(a, b) ==
  IF a = <<>> THEN b # <<>>
  ELSE IF b = <<>> THEN FALSE
  ELSE IF Head(a) = Head(b) THEN LexLess(Tail(a), Tail(b))
  ELSE CharOrd(Head(a)) < CharOrd(Head(b))

\* length of the longest common subsequence
RECURSIVE lcs(_, _)
lcs(a, b) ==
  IF a = <<>> \/ b = <<>> THEN 0
  ELSE IF Head(a) = Head(b) THEN 1 + lcs(Tail(a), Tail(b))
  ELSE LET x == lcs(Tail(a), b)
           y == lcs(a, Tail(b))
       IN IF x >= y THEN x ELSE y

indel_distance(a, b) == Len(a) + Len(b) - 2 * lcs(a, b)

\* 100 - 100 * dist / lensum
norm_distance(dist, lensum) ==
  IF lensum = 0 THEN ScoreOf(100) ELSE <<100 * (lensum - dist), lensum>>

\* fuzz.ratio: normalised Indel similarity
ratio(s1, s2) == norm_distance(indel_distance(s1, s2), Len(s1) + Len(s2))

\* str.split(): the whitespace-separated tokens
RECURSIVE split_acc(_, _)
split_acc(s, cur) ==
  IF s = <<>> THEN (IF cur = <<>> THEN <<>> ELSE <<cur>>)
  ELSE IF Head(s) = " "
       THEN (IF cur = <<>> THEN <<>> ELSE <<cur>>) \o split_acc(Tail(s), <<>>)
       ELSE split_acc(Tail(s), Append(cur, Head(s)))
split(s) == split_acc(s, <<>>)

\* sorted(tokens) of a set of tokens
RECURSIVE sorted(_)
sorted(S) ==
  IF S = {} THEN <<>>
  ELSE LET m == CHOOSE x \in S : \A y \in S \ {x} : LexLess(x, y)
       IN <<m>> \o sorted(S \ {m})

\* sorted(tokens) of a list of tokens (duplicates kept)
RECURSIVE insert_sorted(_, _)
insert_sorted(tok, lst) ==
  IF lst = <<>> THEN <<tok>>
  ELSE IF LexLess(Head(lst), tok) THEN <<Head(lst)>> \o insert_sorted(tok, Tail(lst))
  ELSE <<tok>> \o lst
RECURSIVE sorted_list(_)
sorted_list(lst) ==
  IF lst = <<>> THEN <<>> ELSE insert_sorted(Head(lst), sorted_list(Tail(lst)))

\* " ".join(tokens)
RECURSIVE join(_)
join(toks) ==
  IF toks = <<>> THEN <<>>
  ELSE IF Len(toks) = 1 THEN toks[1]
  ELSE toks[1] \o <<" ">> \o join(Tail(toks))

Range(f) == {f[i] : i \in DOMAIN f}

\* fuzz.token_sort_ratio
token_sort_ratio(s1, s2) ==
  ratio(join(sorted_list(split(s1))), join(sorted_list(split(s2))))

\* fuzz.token_set_ratio
token_set_ratio(s1, s2) ==
  LET tokens_a == Range(split(s1))
      tokens_b == Range(split(s2))
      intersect == tokens_a \cap tokens_b
      diff_ab == tokens_a \ tokens_b
      diff_ba == tokens_b \ tokens_a
      diff_ab_joined == join(sorted(diff_ab))
      diff_ba_joined == join(sorted(diff_ba))
      ab_len == Len(diff_ab_joined)
      ba_len == Len(diff_ba_joined)
      sect_len == Len(join(sorted(intersect)))
      sep == IF sect_len # 0 THEN 1 ELSE 0
      sect_ab_len == sect_len + sep + ab_len
      sect_ba_len == sect_len + sep + ba_len
      result == norm_distance(indel_distance(diff_ab_joined, diff_ba_joined),
                              sect_ab_len + sect_ba_len)
      sect_ab_ratio == norm_distance(sep + ab_len, sect_len + sect_ab_len)
      sect_ba_ratio == norm_distance(sep + ba_len, sect_len + sect_ba_len)
  IN IF tokens_a = {} \/ tokens_b = {} THEN ScoreOf(0)
     ELSE IF intersect # {} /\ (diff_ab = {} \/ diff_ba = {}) THEN ScoreOf(100)
     ELSE IF sect_len = 0 THEN result
     ELSE ScoreMax(result, ScoreMax(sect_ab_ratio, sect_ba_ratio))

ScoreScale(x, pct) == <<x[1] * pct, x[2] * 100>>     \* x * (pct / 100)

\* the best fuzz.ratio of `shorter` against the windows of `longer`: its
\* proper prefixes shorter than `shorter`, its substrings as long as
\* `shorter`, and its suffixes
partial_ratio_impl(shorter, longer) ==
  LET len1 == Len(shorter)
      len2 == Len(longer)
      windows == {SubSeq(longer, 1, i) : i \in 1..(len1 - 1)}
                 \cup {SubSeq(longer, i + 1, i + len1) : i \in 0..(len2 - len1 - 1)}
                 \cup {SubSeq(longer, i + 1, len2) : i \in (len2 - len1)..(len2 - 1)}
      scores == {ratio(shorter, w) : w \in windows}
  IN IF scores = {} THEN ScoreOf(0)
     ELSE CHOOSE x \in scores : \A y \in scores : ScoreGE(x, y)

\* fuzz.partial_ratio
partial_ratio(s1, s2) ==
  IF s1 = <<>> /\ s2 = <<>> THEN ScoreOf(100)
  ELSE IF Len(s1) < Len(s2) THEN partial_ratio_impl(s1, s2)
  ELSE IF Len(s2) < Len(s1) THEN partial_ratio_impl(s2, s1)
  ELSE ScoreMax(partial_ratio_impl(s1, s2), partial_ratio_impl(s2, s1))

\* fuzz.token_ratio
token_ratio(s1, s2) == ScoreMax(token_sort_ratio(s1, s2), token_set_ratio(s1, s2))

\* fuzz.partial_token_ratio
partial_token_ratio(s1, s2) ==
  LET tokens_a == Range(split(s1))
      tokens_b == Range(split(s2))
      diff_ab == join(sorted(tokens_a \ tokens_b))
      diff_ba == join(sorted(tokens_b \ tokens_a))
      by_sort == partial_ratio(join(sorted_list(split(s1))),
                               join(sorted_list(split(s2))))
  IN IF tokens_a = {} \/ tokens_b = {} THEN ScoreOf(0)
     ELSE IF tokens_a \cap tokens_b # {} THEN ScoreOf(100)
     ELSE ScoreMax(by_sort, partial_ratio(diff_ab, diff_ba))

\* fuzz.WRatio
WRatio(s1, s2) ==
  LET len1 == Len(s1)
      len2 == Len(s2)
      big == IF len1 > len2 THEN len1 ELSE len2
      small == IF len1 > len2 THEN len2 ELSE len1
      end_ratio == ratio(s1, s2)
      partial_scale == IF big <= 8 * small THEN 90 ELSE 60
      end_ratio2 == ScoreMax(end_ratio,
                             ScoreScale(partial_ratio(s1, s2), partial_scale))
  IN IF s1 = <<>> \/ s2 = <<>> THEN ScoreOf(0)
     ELSE IF 2 * big < 3 * small
          THEN ScoreMax(end_ratio, ScoreScale(token_ratio(s1, s2), 95))
     ELSE ScoreMax(end_ratio2,
                   ScoreScale(ScoreScale(partial_token_ratio(s1, s2), 95),
                              partial_scale))

\* scorers[scorer_name](s1, s2)
ScorerNames == {"token_sort_ratio", "WRatio", "ratio", "token_set_ratio"}
scorers(name, s1, s2) ==
  CASE name = "token_sort_ratio" -> token_sort_ratio(s1, s2)
    [] name = "WRatio" -> WRatio(s1, s2)
    [] name = "ratio" -> ratio(s1, s2)
    [] name = "token_set_ratio" -> token_set_ratio(s1, s2)

\* variant: the first choice, whatever its score
extractOne_first(q, choices, name) ==
  IF choices = <<>> THEN <<>>
  ELSE <<choices[1], scorers(name, q, choices[1]), 0>>

\* process.extractOne(q, choices, scorer=scorer): the first choice of the
\* highest score as <<choice, score, index>>, or <<>> (None) without choices
RECURSIVE extract_from(_, _, _, _, _)
extract_from(q, choices, name, i, best) ==
  IF i > Len(choices) THEN best
  ELSE LET score == scorers(name, q, choices[i])
       IN IF best = <<>> \/ ~ScoreGE(best[2], score)
          THEN extract_from(q, choices, name, i + 1, <<choices[i], score, i - 1>>)
          ELSE extract_from(q, choices, name, i + 1, best)
extractOne(q, choices, name) == extract_from(q, choices, name, 1, <<>>)

(***************************************************************************)
(* Tables (pandas DataFrame): the ordered column names and the rows, each  *)
(* row a function from column name to cell                                 *)
(***************************************************************************)
Table(cols, rows) == [columns |-> cols, rows |-> rows]
EmptyTable == Table(<<>>, <<>>)
NRows(df) == Len(df.rows)
Column(df, c) == [i \in 1..NRows(df) |-> df.rows[i][c]]

\* df[c] = vals: an existing column is overwritten in place, a new one is
\* appended
SetCol(df, c, vals) ==
  Table(IF c \in Range(df.columns) THEN df.columns ELSE Append(df.columns, c),
        [i \in 1..NRows(df) |->
           [k \in DOMAIN df.rows[i] \cup {c} |->
              IF k = c THEN vals[i] ELSE df.rows[i][k]]])

\* df[cols]
Select(df, cols) ==
  Table(cols, [i \in 1..NRows(df) |-> [k \in Range(cols) |-> df.rows[i][k]]])

\* df.dropna(subset=[c])
dropna(df, c) == Table(df.columns, SelectSeq(df.rows, LAMBDA r : notna(r[c])))

\* df.drop_duplicates(c, keep="first")
RECURSIVE dedup_rows(_, _, _)
dedup_rows(rows, c, seen) ==
  IF rows = <<>> THEN <<>>
  ELSE IF Head(rows)[c] \in seen THEN dedup_rows(Tail(rows), c, seen)
  ELSE <<Head(rows)>> \o dedup_rows(Tail(rows), c, seen \cup {Head(rows)[c]})
\* variant: keep="last"
RECURSIVE dedup_rows_last(_, _)
dedup_rows_last(rows, c) ==
  IF rows = <<>> THEN <<>>
  ELSE IF \E i \in 2..Len(rows) : rows[i][c] = Head(rows)[c]
       THEN dedup_rows_last(Tail(rows), c)
       ELSE <<Head(rows)>> \o dedup_rows_last(Tail(rows), c)
drop_duplicates_keep_last(df, c) == Table(df.columns, dedup_rows_last(df.rows, c))
\* variant: no row is dropped
drop_duplicates_none(df, c) == df
drop_duplicates(df, c) == Table(df.columns, dedup_rows(df.rows, c, {}))

\* df.rename(columns={old: new})
RenameCol(df, old, new) ==
  Table([i \in 1..Len(df.columns) |->
           IF df.columns[i] = old THEN new ELSE df.columns[i]],
        [i \in 1..NRows(df) |->
           [k \in (DOMAIN df.rows[i] \ {old}) \cup {new} |->
              IF k = new THEN df.rows[i][old] ELSE df.rows[i][k]]])

\* left.merge(right, on=key, how="left"): every left row in order, once per
\* right row of the same key in right order, or once with missing right
\* cells.  The two tables share no column but the key (a FIRST sheet with a
\* column RefName or RefCategory makes pandas suffix both and the run stop
\* with KeyError; no such sheet is drawn below)
RECURSIVE merge_rows(_, _, _, _)
merge_rows(lrows, right, key, rcols) ==
  IF lrows = <<>> THEN <<>>
  ELSE LET l == Head(lrows)
           hits == SelectSeq(right.rows, LAMBDA r : r[key] = l[key])
           joined == IF hits = <<>>
                     THEN <<[k \in DOMAIN l \cup Range(rcols) |->
                               IF k \in DOMAIN l THEN l[k] ELSE NaN]>>
                     ELSE [j \in 1..Len(hits) |->
                             [k \in DOMAIN l \cup Range(rcols) |->
                                IF k \in DOMAIN l THEN l[k] ELSE hits[j][k]]]
       IN joined \o merge_rows(Tail(lrows), right, key, rcols)
merge(left, right, key) ==
  LET rcols == SelectSeq(right.columns, LAMBDA c : c # key)
  IN Table(left.columns \o rcols, merge_rows(left.rows, right, key, rcols))

\* dict(zip(keys, vals)).get(k): the value of the last pair with key k, or
\* None
dict_get(keys, vals, k) ==
  LET at == {i \in 1..Len(keys) : keys[i] = k}
  IN IF at = {} THEN NaN
     ELSE vals[CHOOSE i \in at : \A j \in at : j <= i]

\* list.remove(c) when c is in the list: the first occurrence goes
remove_col(cols, c) ==
  IF c \notin Range(cols) THEN cols
  ELSE LET at == CHOOSE i \in 1..Len(cols) :
                   cols[i] = c /\ \A j \in 1..(i - 1) : cols[j] # c
       IN SubSeq(cols, 1, at - 1) \o SubSeq(cols, at + 1, Len(cols))

\* cols.index(c) (0-based) of a column that is in the list
index_of(cols, c) ==
  (CHOOSE i \in 1..Len(cols) : cols[i] = c /\ \A j \in 1..(i - 1) : cols[j] # c) - 1

(***************************************************************************)
(* Literals of the script                                                  *)
(***************************************************************************)
EmptyStr == <<>>
Exact == <<"E", "x", "a", "c", "t">>
Fuzzy == <<"F", "u", "z", "z", "y">>
NotFound == <<"N", "o", "t", " ", "f", "o", "u", "n", "d">>
Found == <<"F", "o", "u", "n", "d">>
NoCategoryColumn == "(No category column)"
ResultCols == <<"Category", "MatchedTo", "MatchMethod", "MatchScore">>
HelperCols == <<"RefName", "RefCategory", "_norm">>

(***************************************************************************)
(* Bounds and input pools                                                  *)
(***************************************************************************)
MaxSubj == 2                       \* rows of the FIRST sheet
MaxRef == 2                        \* rows of the SECOND sheet
MaxLen == 4                        \* length of a raw name given to normalize_name

\* raw names of the FIRST sheet: missing, "AB", "a b"
SubjNames == {NaN, <<"A", "B">>, <<"a", " ", "b">>}
\* rows of the SECOND sheet, <<raw name, has a category>>:
\* "-", "Ab", "ab", "ab" without category, "b"
RefRows == {<<<<"-">>, TRUE>>, <<<<"A", "b">>, TRUE>>, <<<<"a", "b">>, TRUE>>,
            <<<<"a", "b">>, FALSE>>, <<<<"b">>, TRUE>>}
\* column lists of the FIRST sheet; the name column is "Name"
Layouts == {<<"Name", "Other">>, <<"Other", "Name">>, <<"Name", "Category">>,
            <<"_norm", "Name">>}
Thresholds == {50, 92}             \* slider positions tried (range 50..100)
Alphabet == {"a", "A", "1", "-", ".", " ", NBSP}

\* a cell text that names its row: i copies of c
RowTag(c, i) == [j \in 1..i |-> c]

VARIABLES
  df1, df2,                        \* the two parsed sheets
  col_name1, col_name2, col_cat2,  \* column selection
  use_fuzzy, threshold, scorer_name,   \* sidebar controls
  ref_map, out,                    \* tables of the run
  total, exact, fuzzy_cnt, notfound,   \* summary
  pc,                              \* position in the run
  raw, key                         \* argument and result of normalize_name

vars == <<df1, df2, col_name1, col_name2, col_cat2, use_fuzzy, threshold,
          scorer_name, ref_map, out, total, exact, fuzzy_cnt, notfound, pc,
          raw, key>>

config == <<df1, df2, col_name1, col_name2, col_cat2, use_fuzzy, threshold,
            scorer_name>>

\* the sheets, the selected columns and the sidebar controls when "Run
\* Matching" is pressed
Uploaded(layouts, subj_names, ref_rows) ==
  /\ \E cols \in layouts, n \in 1..MaxSubj :
       \E names \in [1..n -> subj_names] :
         df1 = Table(cols, [i \in 1..n |->
                 [k \in Range(cols) |->
                    IF k = "Name" THEN names[i] ELSE RowTag("r", i)]])
  /\ \E m \in 0..MaxRef :
       \E rr \in [1..m -> ref_rows] :
         df2 = Table(<<"Name", "Group">>, [i \in 1..m |->
                 [Name |-> rr[i][1],
                  Group |-> IF rr[i][2] THEN RowTag("k", i) ELSE NaN]])
  /\ col_name1 = "Name"
  /\ col_name2 = "Name"
  /\ col_cat2 \in {"Group", NoCategoryColumn}
  /\ use_fuzzy \in BOOLEAN
  /\ IF use_fuzzy
     THEN threshold \in Thresholds /\ scorer_name \in ScorerNames
     ELSE threshold = 92 /\ scorer_name = "token_sort_ratio"
  /\ ref_map = EmptyTable
  /\ out = EmptyTable
  /\ total = 0 /\ exact = 0 /\ fuzzy_cnt = 0 /\ notfound = 0
  /\ pc = "run"
  /\ raw = NaN
  /\ key = NaN

Init == Uploaded({<<"Name", "Other">>}, SubjNames, RefRows)

\* sheets whose other column has any of the layouts' names
InitCols ==
  Uploaded(Layouts, {NaN, <<"A", "B">>},
           {<<<<"A", "b">>, TRUE>>, <<<<"b">>, TRUE>>})

\* all texts of at most n characters
RECURSIVE Texts(_)
Texts(n) ==
  IF n = 0 THEN {<<>>}
  ELSE LET shorter == Texts(n - 1)
       IN shorter \cup {Append(s, c) : s \in {x \in shorter : Len(x) = n - 1},
                                        c \in Alphabet}

\* a call of normalize_name on any raw cell
InitNorm ==
  /\ df1 = EmptyTable /\ df2 = EmptyTable
  /\ col_name1 = "Name" /\ col_name2 = "Name" /\ col_cat2 = NoCategoryColumn
  /\ use_fuzzy = TRUE /\ threshold = 92 /\ scorer_name = "token_sort_ratio"
  /\ ref_map = EmptyTable /\ out = EmptyTable
  /\ total = 0 /\ exact = 0 /\ fuzzy_cnt = 0 /\ notfound = 0
  /\ pc = "norm"
  /\ raw \in Texts(MaxLen) \cup {NaN}
  /\ key = NaN

(***************************************************************************)
(* The run                                                                 *)
(***************************************************************************)
\* work[col] = work[name_col].map(normalize_name)
with_norm(df, name_col) ==
  SetCol(df, "_norm", [i \in 1..NRows(df) |-> normalize_name(df.rows[i][name_col])])

\* the reference map: one row per canonical key, the first in sheet order
build_ref_map(work2, name_col, cat_col) ==
  IF cat_col = NoCategoryColumn
  THEN LET m == RenameCol(drop_duplicates(dropna(Select(work2,
                      <<"_norm", name_col>>), "_norm"), "_norm"),
                    name_col, "RefName")
       IN SetCol(m, "RefCategory", [i \in 1..NRows(m) |-> NaN])
  ELSE RenameCol(RenameCol(drop_duplicates(dropna(Select(work2,
                   <<"_norm", name_col, cat_col>>), "_norm"), "_norm"),
                 name_col, "RefName"), cat_col, "RefCategory")

\* lambda x: "Exact" if pd.notna(x) else None
exact_method(x) == IF notna(x) THEN Exact ELSE NaN
\* lambda x: 100.0 if pd.notna(x) else None
exact_score(x) == IF notna(x) THEN ScoreOf(100) ELSE NoScore

\* the exact merge and the first fill of the result columns
exact_merge(work1, refmap) ==
  LET o0 == merge(work1, refmap, "_norm")
      o1 == SetCol(o0, "Category", Column(o0, "RefCategory"))
      o2 == SetCol(o1, "MatchedTo", Column(o1, "RefName"))
      o3 == SetCol(o2, "MatchMethod",
                   [i \in 1..NRows(o2) |-> exact_method(o2.rows[i]["Category"])])
  IN SetCol(o3, "MatchScore",
            [i \in 1..NRows(o3) |-> exact_score(o3.rows[i]["Category"])])

ExactStage ==
  /\ pc = "run"
  /\ LET work1 == with_norm(df1, col_name1)
         work2 == with_norm(df2, col_name2)
     IN /\ ref_map' = build_ref_map(work2, col_name2, col_cat2)
        /\ out' = exact_merge(work1, ref_map')
  /\ pc' = "fuzzy"
  /\ UNCHANGED <<config, total, exact, fuzzy_cnt, notfound, raw, key>>

\* need = out["MatchMethod"].isna() & out["_norm"].ne("")
need(row) == isna(row["MatchMethod"]) /\ row["_norm"] # EmptyStr

\* variant: any score is accepted
accepted_any(score, thr) == ScoreGE(score, ScoreOf(0))

\* score >= threshold
accepted(score, thr) == ScoreGE(score, ScoreOf(thr))

\* the first loop: the accepted best candidates, <<idx, cand_norm, score>>
RECURSIVE find_hits(_, _, _, _, _)
find_hits(o, i, ref_names, name, thr) ==
  IF i > NRows(o) THEN <<>>
  ELSE LET best == IF need(o.rows[i])
                   THEN extractOne(o.rows[i]["_norm"], ref_names, name)
                   ELSE <<>>
           rest == find_hits(o, i + 1, ref_names, name, thr)
       IN IF need(o.rows[i]) /\ best # <<>> /\ accepted(best[2], thr)
          THEN <<<<i, best[1], best[2]>>>> \o rest
          ELSE rest

\* out.at[idx, col] = v
set_at(o, idx, c, v) ==
  Table(o.columns, [i \in 1..NRows(o) |->
                      IF i = idx THEN [o.rows[i] EXCEPT ![c] = v] ELSE o.rows[i]])

\* the second loop: the hits written into the table
RECURSIVE write_hits(_, _, _, _)
write_hits(o, hits, ref_cat_by_norm, ref_raw_by_norm) ==
  IF hits = <<>> THEN o
  ELSE LET idx == Head(hits)[1]
           cand_norm == Head(hits)[2]
           score == Head(hits)[3]
           o1 == set_at(o, idx, "Category", ref_cat_by_norm[cand_norm])
           o2 == set_at(o1, idx, "MatchedTo", ref_raw_by_norm[cand_norm])
           o3 == set_at(o2, idx, "MatchMethod", Fuzzy)
           o4 == set_at(o3, idx, "MatchScore", score)
       IN write_hits(o4, Tail(hits), ref_cat_by_norm, ref_raw_by_norm)

fuzzy_match(o, refmap, name, thr) ==
  LET ref == drop_duplicates(dropna(refmap, "_norm"), "_norm")
      ref_names == Column(ref, "_norm")
      ref_cat_by_norm == [k \in Range(ref_names) |->
                            dict_get(ref_names, Column(ref, "RefCategory"), k)]
      ref_raw_by_norm == [k \in Range(ref_names) |->
                            dict_get(ref_names, Column(ref, "RefName"), k)]
      hits == find_hits(o, 1, ref_names, name, thr)
  IN write_hits(o, hits, ref_cat_by_norm, ref_raw_by_norm)

\* variant: the stage runs whatever the checkbox says
FuzzyStage_unguarded ==
  /\ pc = "fuzzy"
  /\ out' = fuzzy_match(out, ref_map, scorer_name, threshold)
  /\ pc' = "assemble"
  /\ UNCHANGED <<config, ref_map, total, exact, fuzzy_cnt, notfound, raw, key>>

FuzzyStage ==
  /\ pc = "fuzzy"
  /\ use_fuzzy
  /\ out' = fuzzy_match(out, ref_map, scorer_name, threshold)
  /\ pc' = "assemble"
  /\ UNCHANGED <<config, ref_map, total, exact, fuzzy_cnt, notfound, raw, key>>

SkipFuzzy ==
  /\ pc = "fuzzy"
  /\ ~use_fuzzy
  /\ pc' = "assemble"
  /\ UNCHANGED <<config, ref_map, out, total, exact, fuzzy_cnt, notfound, raw, key>>

\* series.fillna(v)
fillna(x, v) == IF isna(x) THEN v ELSE x
score_fillna(x, v) == IF score_isna(x) THEN v ELSE x

\* lambda x: "Found" if pd.notna(x) else "Not found"
found_flag(x) == IF notna(x) THEN Found ELSE NotFound

\* the Not found fallback
fallback(o, cat_col) ==
  LET o1 == IF cat_col = NoCategoryColumn
            THEN SetCol(o, "Category",
                        [i \in 1..NRows(o) |-> found_flag(o.rows[i]["MatchedTo"])])
            ELSE SetCol(o, "Category",
                        [i \in 1..NRows(o) |-> fillna(o.rows[i]["Category"], NotFound)])
      o2 == SetCol(o1, "MatchMethod",
                   [i \in 1..NRows(o1) |-> fillna(o1.rows[i]["MatchMethod"], NotFound)])
  IN SetCol(o2, "MatchScore",
            [i \in 1..NRows(o2) |-> score_fillna(o2.rows[i]["MatchScore"], ScoreOf(0))])

RECURSIVE remove_all(_, _)
remove_all(cols, names) ==
  IF names = <<>> THEN cols ELSE remove_all(remove_col(cols, Head(names)), Tail(names))

\* the result columns placed after the name column, the helpers dropped
reorder(o, name_col) ==
  LET cols == remove_all(remove_all(o.columns, HelperCols), ResultCols)
      insert_at == IF name_col \in Range(cols) THEN index_of(cols, name_col) + 1 ELSE 1
      new_cols == SubSeq(cols, 1, insert_at) \o ResultCols
                  \o SubSeq(cols, insert_at + 1, Len(cols))
  IN Select(o, new_cols)

\* int((out["MatchMethod"] == m).sum())
count_method(o, m) == Cardinality({i \in 1..NRows(o) : o.rows[i]["MatchMethod"] = m})

Assemble ==
  /\ pc = "assemble"
  /\ out' = reorder(fallback(out, col_cat2), col_name1)
  /\ total' = NRows(out')
  /\ exact' = count_method(out', Exact)
  /\ fuzzy_cnt' = count_method(out', Fuzzy)
  /\ notfound' = count_method(out', NotFound)
  /\ pc' = "done"
  /\ UNCHANGED <<config, ref_map, raw, key>>

Next == ExactStage \/ FuzzyStage \/ SkipFuzzy \/ Assemble

Spec == Init /\ [][Next]_vars

SpecCols == InitCols /\ [][Next]_vars

\* key = normalize_name(raw)
NormalizeName ==
  /\ pc = "norm"
  /\ key' = normalize_name(raw)
  /\ pc' = "normed"
  /\ UNCHANGED <<config, ref_map, out, total, exact, fuzzy_cnt, notfound, raw>>

NextNorm == NormalizeName

SpecNorm == InitNorm /\ [][NextNorm]_vars

(***************************************************************************)
(* Properties                                                              *)
(***************************************************************************)
Done == pc = "done"
Rows == 1..NRows(df1)
SubjKey(i) == normalize_name(df1.rows[i][col_name1])
RefKey(j) == normalize_name(df2.rows[j][col_name2])
RefKeys == {RefKey(j) : j \in 1..NRows(df2)}
\* the first row of the SECOND sheet with canonical key k
FirstRef(k) ==
  CHOOSE j \in 1..NRows(df2) : RefKey(j) = k /\ \A h \in 1..(j - 1) : RefKey(h) # k
Method(i) == out.rows[i]["MatchMethod"]
Score(i) == out.rows[i]["MatchScore"]
Category(i) == out.rows[i]["Category"]
MatchedTo(i) == out.rows[i]["MatchedTo"]
\* what the Category column shows for a match to row j of the SECOND sheet
Shown(j) ==
  IF col_cat2 = NoCategoryColumn THEN Found
  ELSE IF isna(df2.rows[j][col_cat2]) THEN NotFound ELSE df2.rows[j][col_cat2]

\* C1: a subject row whose non-empty canonical key equals the key of a
\* reference row ends as Exact with score 100.0, in every configuration.
C1_ExactWins ==
  Done => \A i \in Rows :
    (SubjKey(i) # EmptyStr /\ SubjKey(i) \in RefKeys)
      => Method(i) = Exact /\ ScoreEQ(Score(i), ScoreOf(100))

\* C2: a subject row whose name is missing or normalises to the empty key
\* ends as Not found, score 0.0, Category "Not found", no MatchedTo.
C2_EmptyKeyNotFound ==
  Done => \A i \in Rows :
    SubjKey(i) = EmptyStr
      => /\ Method(i) = NotFound
         /\ ScoreEQ(Score(i), ScoreOf(0))
         /\ Category(i) = NotFound
         /\ isna(MatchedTo(i))

\* C3: without a category column, Category is "Found" exactly for the rows
\* whose method is Exact or Fuzzy and "Not found" exactly for the rows whose
\* method is Not found.
C3_NoCategoryFlag ==
  (Done /\ col_cat2 = NoCategoryColumn) => \A i \in Rows :
    /\ Category(i) = Found <=> Method(i) \in {Exact, Fuzzy}
    /\ Category(i) = NotFound <=> Method(i) = NotFound

\* C4: a row labelled Fuzzy has a score of at least the threshold and at
\* most 100.
C4_FuzzyAtLeastThreshold ==
  pc \in {"assemble", "done"} => \A i \in 1..NRows(out) :
    Method(i) = Fuzzy
      => /\ ScoreGE(Score(i), ScoreOf(threshold))
         /\ ScoreGE(ScoreOf(100), Score(i))

\* a Fuzzy row whose score lies strictly between the threshold and 100
C4_Witness ==
  Done /\ \E i \in Rows :
    /\ Method(i) = Fuzzy
    /\ ~ScoreGE(Score(i), ScoreOf(100))
    /\ ~ScoreGE(ScoreOf(threshold), Score(i))

\* C5: with fuzzy matching disabled no row is Fuzzy, and every row whose key
\* equals no reference key ends as Not found with score 0.0.
C5_FuzzyDisabled ==
  (Done /\ ~use_fuzzy) => \A i \in Rows :
    /\ Method(i) # Fuzzy
    /\ SubjKey(i) \notin RefKeys
         => Method(i) = NotFound /\ ScoreEQ(Score(i), ScoreOf(0))

\* fuzzy disabled, and a row without exact hit that a reference key matches
\* at 50 or more under the selected scorer
C5_Witness ==
  Done /\ ~use_fuzzy /\ \E i \in Rows :
    /\ SubjKey(i) # EmptyStr
    /\ SubjKey(i) \notin RefKeys
    /\ \E k \in RefKeys :
         ScoreGE(scorers(scorer_name, SubjKey(i), k), ScoreOf(50))

\* C6: the reference map holds one row per canonical key, and a row matched
\* to a key (exactly or by fuzzy) reports the name and the category of the
\* first reference row of that key.
C6_FirstReferenceWins ==
  /\ pc \in {"fuzzy", "assemble", "done"}
       => \A a, b \in 1..NRows(ref_map) :
            ref_map.rows[a]["_norm"] = ref_map.rows[b]["_norm"] => a = b
  /\ Done => \A i \in Rows :
       Method(i) \in {Exact, Fuzzy}
         => LET k == normalize_name(MatchedTo(i))
            IN /\ k \in RefKeys
               /\ MatchedTo(i) = df2.rows[FirstRef(k)][col_name2]
               /\ Category(i) = Shown(FirstRef(k))

\* two reference rows of one key with different names and categories, an
\* Exact row and a Fuzzy row matched to that key
C6_Witness ==
  Done /\ \E a, b \in 1..NRows(df2) :
    /\ a < b
    /\ RefKey(a) = RefKey(b)
    /\ df2.rows[a]["Name"] # df2.rows[b]["Name"]
    /\ df2.rows[a]["Group"] # df2.rows[b]["Group"]
    /\ \E i, j \in Rows :
         /\ Method(i) = Exact /\ normalize_name(MatchedTo(i)) = RefKey(a)
         /\ Method(j) = Fuzzy /\ normalize_name(MatchedTo(j)) = RefKey(a)

\* C7: the table of the run has one row per subject row, in subject order;
\* every row ends with one of the three methods and the three counts add up
\* to the total, the number of subject rows.
C7_OneRowPerSubject ==
  /\ pc \in {"fuzzy", "assemble", "done"}
       => /\ NRows(out) = NRows(df1)
          /\ \A i \in Rows : \A c \in Range(df1.columns) :
               out.rows[i][c] = df1.rows[i][c]
  /\ Done
       => /\ \A i \in 1..NRows(out) : Method(i) \in {Exact, Fuzzy, NotFound}
          /\ total = NRows(df1)
          /\ exact + fuzzy_cnt + notfound = total

\* two subject rows of one key, which two reference rows share
C7_Witness ==
  Done /\ NRows(df1) >= 2 /\ SubjKey(1) = SubjKey(2)
       /\ \E a, b \in 1..NRows(df2) :
            a # b /\ RefKey(a) = SubjKey(1) /\ RefKey(b) = SubjKey(1)

\* the character class a raw character falls into: its lower case when
\* that is in [a-z0-9 ], a space otherwise
Fold(c) == IF LowerChar(c) \in Kept THEN LowerChar(c) ELSE " "
FoldText(s) == [i \in 1..Len(s) |-> Fold(s[i])]
\* lower case and ordinary spaces, the characters outside [a-z0-9 ] removed
StripText(s) == SelectSeq(replace_nbsp(lower(s)), LAMBDA c : c \in Kept)

\* C8 as stated: the key of a missing name is empty; the key of any other
\* name is its lower case with ordinary spaces, every character outside
\* [a-z0-9 ] removed, whitespace runs collapsed and the ends trimmed.
C8_RemovesOtherCharacters ==
  pc = "normed"
    => /\ isna(raw) => key = EmptyStr
       /\ notna(raw) => key = join(split(StripText(raw)))

\* C8 as amended: every character outside [a-z0-9 ] counts as a space (the
\* words it separates stay apart), so the key is the words of the folded
\* name joined by single spaces; names that differ at one position only in
\* case, in the punctuation character, or in punctuation, non-breaking space
\* or space have the same key.
C8_SeparatesOnOtherCharacters ==
  pc = "normed"
    => /\ isna(raw) => key = EmptyStr
       /\ notna(raw) => key = join(split(FoldText(raw)))
       /\ notna(raw) => \A i \in 1..Len(raw) : \A c \in Alphabet :
            Fold(c) = Fold(raw[i]) => normalize_name([raw EXCEPT ![i] = c]) = key

\* a name with a punctuation character between two letters or digits
C8_Witness ==
  pc = "normed" /\ notna(raw) /\ \E i \in 2..(Len(raw) - 1) :
    /\ raw[i] \in PunctChars
    /\ Fold(raw[i - 1]) # " "
    /\ Fold(raw[i + 1]) # " "
    /\ Len(key) = 3

\* C9: the output holds every subject column, values and relative order
\* unchanged, the four result columns right after the name column, and no
\* helper column.
C9_SubjectColumnsPreserved ==
  Done
    => /\ \A c \in Range(df1.columns) :
            /\ c \in Range(out.columns)
            /\ \A i \in Rows : out.rows[i][c] = df1.rows[i][c]
       /\ SelectSeq(out.columns, LAMBDA c : c \in Range(df1.columns)) = df1.columns
       /\ \E p \in 1..Len(out.columns) :
            /\ out.columns[p] = col_name1
            /\ p + Len(ResultCols) <= Len(out.columns)
            /\ SubSeq(out.columns, p + 1, p + Len(ResultCols)) = ResultCols
       /\ \A c \in Range(HelperCols) : c \notin Range(out.columns)

\* the score of every reference key for the query q
KeyScores(q, keys) == [k \in keys |-> scorers(scorer_name, q, k)]
\* the keys of the highest score
BestKeys(S) == {k \in DOMAIN S : \A h \in DOMAIN S : ScoreGE(S[k], S[h])}

C10_BestCandidate ==
  (Done /\ use_fuzzy) =>
    LET keys == RefKeys
    IN \A i \in Rows :
         LET q == SubjKey(i)
             S == KeyScores(q, keys)
             best == BestKeys(S)
         IN (q # EmptyStr /\ q \notin keys)
              => /\ Method(i) = Fuzzy
                      <=> \E k \in best : ScoreGE(S[k], ScoreOf(threshold))
                 /\ Method(i) = Fuzzy
                      => \E j \in 1..NRows(df2) :
                           /\ RefKey(j) \in best
                           /\ ScoreEQ(Score(i), S[RefKey(j)])
                           /\ j = FirstRef(RefKey(j))
                           /\ MatchedTo(i) = df2.rows[j][col_name2]
                           /\ Category(i) = Shown(j)

C10_ExactKept ==
  (pc = "fuzzy" /\ pc' = "assemble")
    => \A i \in 1..NRows(out) : Method(i) = Exact => out'.rows[i] = out.rows[i]

\* C10: with fuzzy enabled a row with a non-empty key and no exact hit is
\* Fuzzy exactly when the highest score over all reference keys reaches the
\* threshold; its score is that highest score and its MatchedTo and Category
\* come from one reference entry whose key has that score.  The fuzzy stage
\* leaves every Exact row as it was.
C10_FuzzyBestMatch == [](C10_BestCandidate) /\ [][C10_ExactKept]_vars

\* a Fuzzy row whose best key is not the first reference row and scores
\* more than another key, beside an Exact row
C10_Witness ==
  Done /\ use_fuzzy /\ \E i, e \in Rows :
    /\ Method(e) = Exact
    /\ Method(i) = Fuzzy
    /\ SubjKey(i) \notin RefKeys
    /\ MatchedTo(i) = df2.rows[NRows(df2)]["Name"]
    /\ ~ScoreGE(scorers(scorer_name, SubjKey(i), RefKey(1)), Score(i))
    /\ ScoreGE(scorers(scorer_name, SubjKey(i), RefKey(1)), ScoreOf(50))

====
